---- MODULE Spec2Model ----
(***************************************************************************)
(* Maven dependency tree model (src/src/models/dependency.py), its parser  *)
(* (src/src/parser/tree_parser.py) and the redundancy / version-conflict   *)
(* analyzer (src/src/analyzer/redundancy_analyzer.py).                     *)
(*                                                                         *)
(* A Dependency object is a record; object identity is the position of    *)
(* the record in the sequence `nodes` (objects are created in pre-order   *)
(* by TreeParser._parse_node).  A Python set of Dependency objects is a   *)
(* set of identities holding at most one object per full coordinate       *)
(* (Dependency.__hash__/__eq__), iterated in an order the hash seed of    *)
(* the process decides.                                                    *)
(***************************************************************************)
EXTENDS Integers, Sequences, FiniteSets, TLC

\* ------------------------------------------------------------------ bounds
MaxNodes == 4      \* nodes of the parsed tree, the root included
MaxUnused == 2     \* entries of AnalysisResult.unused_declared
MaxUsed == 2       \* entries of AnalysisResult.used_undeclared
MaxLines == 4      \* lines of a dependency:analyze report
MaxRunNodes == 3   \* nodes of a tree whose analyze() call is followed step by step

\* The artifacts a parsed node is drawn from: two nodes of the same
\* group:artifact:version that differ in scope, a second version of the same
\* artifact, and another artifact.
Kinds ==
  { [group_id |-> "g", artifact_id |-> "A", version |-> "1.0", scope |-> "compile", type |-> "jar"],
    [group_id |-> "g", artifact_id |-> "A", version |-> "1.0", scope |-> "test", type |-> "jar"],
    [group_id |-> "g", artifact_id |-> "A", version |-> "2.0", scope |-> "compile", type |-> "jar"],
    [group_id |-> "g", artifact_id |-> "B", version |-> "1.0", scope |-> "compile", type |-> "jar"] }

\* Coordinate strings a usage report may list: simple and full forms of
\* artifacts of Kinds.
UnusedCoords == {"g:A:1.0", "g:A:jar:1.0:compile"}
UsedCoords == {"g:A:1.0", "g:A:jar:1.0:test", "g:B:1.0"}

\* Every string the lookups and searches are asked about: those, a second
\* version, and an artifact that no tree contains.
QueryCoords == UnusedCoords \cup UsedCoords \cup {"g:A:2.0", "g:Z:1.0"}

\* Python's order on the version strings that occur (str.__lt__).
VersionsAscending == <<"1.0", "2.0">>

VARIABLES
  nodes,             \* the Dependency objects, in creation order
  stack,             \* the active _parse_node calls, outermost first
  pc,                \* "parsing" | "ready"
  all_dependencies,  \* DependencyTree.all_dependencies: key -> Seq(identity)
  call               \* the last operation called on the tree, with its result

vars == <<nodes, stack, pc, all_dependencies, call>>

\* ------------------------------------------------------------ Dependency
coordinate(d) ==
  d.group_id \o ":" \o d.artifact_id \o ":" \o d.type \o ":" \o d.version \o ":" \o d.scope

simple_coordinate(d) ==
  d.group_id \o ":" \o d.artifact_id \o ":" \o d.version

\* Dependency.__eq__ / __hash__: equality of full coordinates.
DepEq(ns, i, j) == coordinate(ns[i]) = coordinate(ns[j])

NewDependency(kind, parent, depth) ==
  [group_id |-> kind.group_id, artifact_id |-> kind.artifact_id,
   version |-> kind.version, scope |-> kind.scope, type |-> kind.type,
   children |-> <<>>, parent |-> parent, depth |-> depth]

Last(s) == s[Len(s)]
Front(s) == SubSeq(s, 1, Len(s) - 1)
Range(s) == {s[i] : i \in DOMAIN s}

\* ---------------------------------------------------------- DependencyTree
\* flatten(): depth-first, a node before its children, children in order.
RECURSIVE traverse(_, _)
traverse(ns, n) ==
  LET RECURSIVE over(_)
      over(cs) == IF cs = <<>> THEN <<>> ELSE traverse(ns, Head(cs)) \o over(Tail(cs))
  IN <<n>> \o over(ns[n].children)

flatten(ns) == traverse(ns, 1)

\* build_coordinate_index(): clear, then append every node of flatten()
\* to the list kept under its simple coordinate.
RECURSIVE IndexAppend(_, _, _)
IndexAppend(ns, idx, flat) ==
  IF flat = <<>> THEN idx
  ELSE LET dep == Head(flat)
           coord == simple_coordinate(ns[dep])
           cur == IF coord \in DOMAIN idx THEN idx[coord] ELSE <<>>
           nxt == [k \in DOMAIN idx \cup {coord} |->
                     IF k = coord THEN Append(cur, dep) ELSE idx[k]]
       IN IndexAppend(ns, nxt, Tail(flat))

EmptyIndex == [k \in {} |-> <<>>]

\* build_coordinate_index() without the clear().
build_coordinate_index_NoClear(ns, idx) == IndexAppend(ns, idx, flatten(ns))

\* build_coordinate_index() as a dict update: the keys of the new index
\* are replaced, the other keys of the prior index stay.
build_coordinate_index_Merge(ns, idx) ==
  LET new == IndexAppend(ns, EmptyIndex, flatten(ns))
  IN [k \in DOMAIN idx \cup DOMAIN new |-> IF k \in DOMAIN new THEN new[k] ELSE idx[k]]

build_coordinate_index(ns, idx) == IndexAppend(ns, EmptyIndex, flatten(ns))

\* find_dependency(): all_dependencies.get(coordinate, []).
find_dependency(idx, c) == IF c \in DOMAIN idx THEN idx[c] ELSE <<>>

\* The largest element of a sequence of numbers, default when it is empty.
max(xs, default) ==
  IF xs = <<>> THEN default
  ELSE CHOOSE m \in Range(xs) : \A x \in Range(xs) : x <= m

\* max_depth with only the root's children looked at.
max_depth_DirectOnly(ns) ==
  max([i \in DOMAIN ns[1].children |-> ns[ns[1].children[i]].depth], 0)

\* max_depth: the largest depth field over flatten(), 0 when there is none
max_depth(ns) ==
  LET flattened == flatten(ns)
  IN max([i \in DOMAIN flattened |-> ns[flattened[i]].depth], 0)

\* Python set of Dependency objects: add() keeps the element already there
\* when an equal one (same full coordinate) is added.
SetAdd(ns, S, x) == IF \E y \in S : DepEq(ns, x, y) THEN S ELSE S \cup {x}

\* set.update(T): add() of every element of T (the elements of a set are
\* pairwise unequal, so the outcome does not depend on T's order).
SetUpdate(ns, S, T) == S \cup {x \in T : ~ \E y \in S : DepEq(ns, x, y)}

\* Dependency.get_all_descendants(): for each child, add the child, then
\* update with the child's descendants.
RECURSIVE get_all_descendants(_, _)
get_all_descendants(ns, n) ==
  LET RECURSIVE over(_, _)
      over(cs, descendants) ==
        IF cs = <<>> THEN descendants
        ELSE over(Tail(cs),
                  SetUpdate(ns, SetAdd(ns, descendants, Head(cs)),
                            get_all_descendants(ns, Head(cs))))
  IN over(ns[n].children, {})

\* Iteration over a set: the elements in the order the process's string
\* hashing gives their coordinates (hash_order lists the coordinates).
SetIter(ns, S, hash_order) ==
  LET RECURSIVE over(_)
      over(cs) ==
        IF cs = <<>> THEN <<>>
        ELSE LET here == {x \in S : coordinate(ns[x]) = Head(cs)}
             IN (IF here = {} THEN <<>> ELSE <<CHOOSE x \in here : TRUE>>) \o over(Tail(cs))
  IN over(hash_order)

\* Optional[List[Dependency]]
None == [some |-> FALSE, path |-> <<>>]
Some(p) == [some |-> TRUE, path |-> p]
Truthy(r) == r.some /\ r.path # <<>>

\* find_path_to() ending in `return []`.
RECURSIVE find_path_to_EmptyList(_, _, _)
find_path_to_EmptyList(ns, self, target_coordinate) ==
  IF coordinate(ns[self]) = target_coordinate \/ simple_coordinate(ns[self]) = target_coordinate
  THEN Some(<<self>>)
  ELSE LET RECURSIVE over(_)
           over(cs) ==
             IF cs = <<>> THEN Some(<<>>)
             ELSE LET path == find_path_to_EmptyList(ns, Head(cs), target_coordinate)
                  IN IF Truthy(path) THEN Some(<<self>> \o path.path) ELSE over(Tail(cs))
       IN over(ns[self].children)

\* Dependency.find_path_to()
RECURSIVE find_path_to(_, _, _)
find_path_to(ns, self, target_coordinate) ==
  IF coordinate(ns[self]) = target_coordinate \/ simple_coordinate(ns[self]) = target_coordinate
  THEN Some(<<self>>)
  ELSE LET RECURSIVE over(_)
           over(cs) ==
             IF cs = <<>> THEN None
             ELSE LET path == find_path_to(ns, Head(cs), target_coordinate)
                  IN IF Truthy(path) THEN Some(<<self>> \o path.path) ELSE over(Tail(cs))
       IN over(ns[self].children)

\* ------------------------------------------------------ RedundancyAnalyzer
\* _find_path_in_tree() returning from inside the loop after the first child.
RECURSIVE _find_path_in_tree_FirstChildOnly(_, _, _)
_find_path_in_tree_FirstChildOnly(ns, start_node, target_coordinate) ==
  IF simple_coordinate(ns[start_node]) = target_coordinate
       \/ coordinate(ns[start_node]) = target_coordinate
  THEN Some(<<start_node>>)
  ELSE LET RECURSIVE over(_)
           over(cs) ==
             IF cs = <<>> THEN None
             ELSE LET path == _find_path_in_tree_FirstChildOnly(ns, Head(cs), target_coordinate)
                  IN IF Truthy(path) THEN Some(<<start_node>> \o path.path) ELSE None
       IN over(ns[start_node].children)

\* _find_path_in_tree() going through the children last to first.
RECURSIVE _find_path_in_tree_LastChildFirst(_, _, _)
_find_path_in_tree_LastChildFirst(ns, start_node, target_coordinate) ==
  IF simple_coordinate(ns[start_node]) = target_coordinate
       \/ coordinate(ns[start_node]) = target_coordinate
  THEN Some(<<start_node>>)
  ELSE LET RECURSIVE over(_)
           over(cs) ==
             IF cs = <<>> THEN None
             ELSE LET path == _find_path_in_tree_LastChildFirst(ns, Last(cs), target_coordinate)
                  IN IF Truthy(path) THEN Some(<<start_node>> \o path.path) ELSE over(Front(cs))
       IN over(ns[start_node].children)

\* RedundancyAnalyzer._find_path_in_tree()
RECURSIVE _find_path_in_tree(_, _, _)
_find_path_in_tree(ns, start_node, target_coordinate) ==
  IF simple_coordinate(ns[start_node]) = target_coordinate
       \/ coordinate(ns[start_node]) = target_coordinate
  THEN Some(<<start_node>>)
  ELSE LET RECURSIVE over(_)
           over(cs) ==
             IF cs = <<>> THEN None
             ELSE LET path == _find_path_in_tree(ns, Head(cs), target_coordinate)
                  IN IF Truthy(path) THEN Some(<<start_node>> \o path.path) ELSE over(Tail(cs))
       IN over(ns[start_node].children)

\* sorted() of a collection of version strings.
sorted(versions) == SelectSeq(VersionsAscending, LAMBDA v : v \in versions)

\* TreeAnalyzer.get_dependency_paths(): traverse() appends the path to a
\* matching node and goes into the children of a node that does not match.
RECURSIVE get_dependency_paths_traverse(_, _, _, _)
get_dependency_paths_traverse(ns, node, current_path, target) ==
  IF simple_coordinate(ns[node]) = target \/ coordinate(ns[node]) = target
  THEN <<Append(current_path, node)>>
  ELSE LET RECURSIVE over(_)
           over(cs) ==
             IF cs = <<>> THEN <<>>
             ELSE get_dependency_paths_traverse(ns, Head(cs), Append(current_path, node), target)
                    \o over(Tail(cs))
       IN over(ns[node].children)

get_dependency_paths(ns, target) == get_dependency_paths_traverse(ns, 1, <<>>, target)

\* get_path() inside to_polars_df(): the parent chain of a node, walked up to
\* the root, as the list of the ancestors' artifact ids from the root down.
RECURSIVE get_path(_, _)
get_path(ns, n) ==
  IF ns[n].parent = 0 THEN <<>>
  ELSE Append(get_path(ns, ns[n].parent), ns[ns[n].parent].artifact_id)

\* One row of the data frame of to_polars_df().
Row(ns, n) ==
  [group_id |-> ns[n].group_id, artifact_id |-> ns[n].artifact_id,
   version |-> ns[n].version, scope |-> ns[n].scope, type |-> ns[n].type,
   depth |-> ns[n].depth, coordinate |-> coordinate(ns[n]),
   simple_coordinate |-> simple_coordinate(ns[n]),
   path |-> IF get_path(ns, n) = <<>> THEN <<"root">> ELSE get_path(ns, n)]

\* to_polars_df() leaving the root out.
to_polars_df_NoRoot(ns) ==
  LET flattened == Tail(flatten(ns))
  IN [i \in 1..Len(flattened) |-> Row(ns, flattened[i])]

\* DependencyTree.to_polars_df(): one row per node of flatten().
to_polars_df(ns) ==
  LET flattened == flatten(ns)
  IN [i \in 1..Len(flattened) |-> Row(ns, flattened[i])]

\* The keys of df.group_by("group_id", "artifact_id").
GroupKeys(df) == {<<df[i].group_id, df[i].artifact_id>> : i \in DOMAIN df}

\* df.group_by(column).len() as a dict: each value of the column with the
\* number of rows that have it.
Distribution(df, column) ==
  [v \in {df[i][column] : i \in DOMAIN df} |->
     Cardinality({i \in DOMAIN df : df[i][column] = v})]

\* The versions of the rows of one (group_id, artifact_id) group, as a set.
VersionsOf(df, key) ==
  {df[i].version : i \in {j \in DOMAIN df : <<df[j].group_id, df[j].artifact_id>> = key}}

\* TreeAnalyzer.get_statistics(): counts over the rows of to_polars_df().
\* transitive_dependencies is total_deps - direct_deps. The entries of
\* duplicate_dependencies, and the versions inside one, come in an order
\* that group_by and set() leave open; both are kept as sets.
get_statistics(ns) ==
  LET df == to_polars_df(ns)
      total_deps == Len(df)
      direct_deps == Cardinality({i \in DOMAIN df : df[i].depth = 1})
  IN [total_dependencies |-> total_deps,
      direct_dependencies |-> direct_deps,
      transitive_dependencies |-> total_deps - direct_deps,
      max_depth |-> max([i \in DOMAIN df |-> df[i].depth], 0),
      unique_artifacts |-> Cardinality(GroupKeys(df)),
      duplicate_dependencies |->
        {[group_artifact |-> key[1] \o ":" \o key[2],
          versions |-> VersionsOf(df, key),
          count |-> Cardinality(VersionsOf(df, key))] :
           key \in {g \in GroupKeys(df) : Cardinality(VersionsOf(df, g)) > 1}},
      scope_distribution |-> Distribution(df, "scope"),
      type_distribution |-> Distribution(df, "type"),
      depth_distribution |-> Distribution(df, "depth")]

\* DependencyTree.total_dependencies: len(flatten()), the root included.
total_dependencies(ns) == Len(flatten(ns))

\* DependencyTree.direct_dependencies: the root's children list.
direct_dependencies(ns) == ns[1].children

\* _detect_version_conflicts() aggregating pl.col("version") without
\* unique(): a group's versions are those of all its rows, sorted.
_detect_version_conflicts_NoUnique(ns, group_order) ==
  LET df == to_polars_df(ns)
      rows(key) == SelectSeq(df, LAMBDA r : <<r.group_id, r.artifact_id>> = key)
      RECURSIVE sortedRows(_, _)
      sortedRows(rs, vs) ==
        IF vs = <<>> THEN <<>>
        ELSE [i \in 1..Len(SelectSeq(rs, LAMBDA r : r.version = Head(vs))) |-> Head(vs)]
               \o sortedRows(rs, Tail(vs))
      RECURSIVE over(_)
      over(keys) ==
        IF keys = <<>> THEN <<>>
        ELSE LET versions == sortedRows(rows(Head(keys)), VersionsAscending)
             IN (IF Len(versions) > 1
                 THEN <<[artifact |-> Head(keys)[1] \o ":" \o Head(keys)[2],
                         versions |-> versions]>>
                 ELSE <<>>) \o over(Tail(keys))
  IN over(group_order)

\* RedundancyAnalyzer._detect_version_conflicts(); group_order is the order
\* in which group_by hands out its groups (polars does not fix it).
_detect_version_conflicts(ns, group_order) ==
  LET df == to_polars_df(ns)
      unique(key) == {df[i].version : i \in {j \in DOMAIN df :
                         <<df[j].group_id, df[j].artifact_id>> = key}}
      RECURSIVE over(_)
      over(keys) ==
        IF keys = <<>> THEN <<>>
        ELSE LET versions == unique(Head(keys))
             IN (IF Cardinality(versions) > 1
                 THEN <<[artifact |-> Head(keys)[1] \o ":" \o Head(keys)[2],
                         versions |-> sorted(versions)]>>
                 ELSE <<>>) \o over(Tail(keys))
  IN over(group_order)

\* [p.simple_coordinate for p in path]
PathStrs(ns, path) == [i \in 1..Len(path) |-> simple_coordinate(ns[path[i]])]

\* The list as it is, repeated elements kept.
Unique_Keep(xs) == xs

\* list(dict.fromkeys(xs)): first occurrences, in order.
Unique(xs) ==
  LET RECURSIVE over(_, _)
      over(rest, acc) ==
        IF rest = <<>> THEN acc
        ELSE over(Tail(rest),
                  IF Head(rest) \in Range(acc) THEN acc ELSE Append(acc, Head(rest)))
  IN over(xs, <<>>)

\* str() of a list of strings, as the f-string of a conflict prints it.
ListRepr(xs) ==
  LET RECURSIVE over(_)
      over(rest) ==
        IF rest = <<>> THEN ""
        ELSE "'" \o Head(rest) \o "'" \o (IF Tail(rest) = <<>> THEN "" ELSE ", ") \o over(Tail(rest))
  IN "[" \o over(xs) \o "]"

RedundancyCase(declared, used, path, recommendation) ==
  [declared_dependency |-> declared, actually_used |-> used,
   dependency_path |-> path, recommendation |-> recommendation]

\* severity decided by dependency_path instead of actually_used.
severity_ByPath(case) == IF Len(case.dependency_path) > 0 THEN "high" ELSE "medium"

\* RedundancyCase.severity
severity(case) == IF Len(case.actually_used) > 0 THEN "high" ELSE "medium"

\* `d.simple_coordinate in used_undeclared or d.coordinate in used_undeclared`
IsUsed(ns, d, used_undeclared) ==
  \/ simple_coordinate(ns[d]) \in Range(used_undeclared)
  \/ coordinate(ns[d]) \in Range(used_undeclared)

\* The first loop's body looking at the node's children only.
FirstPassNode_ChildrenOnly(ns, node, used_undeclared, hash_order) ==
  LET RECURSIVE over(_)
      over(cs) ==
        IF cs = <<>> THEN <<>>
        ELSE LET child == Head(cs)
                 p1 == _find_path_in_tree(ns, node, simple_coordinate(ns[child]))
                 path == IF ~ p1.some
                         THEN _find_path_in_tree(ns, node, coordinate(ns[child]))
                         ELSE p1
                 path_strs == IF Truthy(path) THEN PathStrs(ns, path.path) ELSE <<>>
             IN (IF IsUsed(ns, child, used_undeclared)
                 THEN <<RedundancyCase(
                          simple_coordinate(ns[node]),
                          <<simple_coordinate(ns[child])>>,
                          path_strs,
                          "Remove '" \o simple_coordinate(ns[node])
                            \o "' and directly declare '"
                            \o simple_coordinate(ns[child]) \o "' instead")>>
                 ELSE <<>>) \o over(Tail(cs))
  IN IF ns[node].depth = 1
     THEN over(ns[node].children)
     ELSE <<>>

\* The first loop's body without the test of node.depth.
FirstPassNode_AnyDepth(ns, node, used_undeclared, hash_order) ==
  LET RECURSIVE over(_)
      over(cs) ==
        IF cs = <<>> THEN <<>>
        ELSE LET child == Head(cs)
                 p1 == _find_path_in_tree(ns, node, simple_coordinate(ns[child]))
                 path == IF ~ p1.some
                         THEN _find_path_in_tree(ns, node, coordinate(ns[child]))
                         ELSE p1
                 path_strs == IF Truthy(path) THEN PathStrs(ns, path.path) ELSE <<>>
             IN (IF IsUsed(ns, child, used_undeclared)
                 THEN <<RedundancyCase(
                          simple_coordinate(ns[node]),
                          <<simple_coordinate(ns[child])>>,
                          path_strs,
                          "Remove '" \o simple_coordinate(ns[node])
                            \o "' and directly declare '"
                            \o simple_coordinate(ns[child]) \o "' instead")>>
                 ELSE <<>>) \o over(Tail(cs))
  IN over(SetIter(ns, get_all_descendants(ns, node), hash_order))

\* The first loop's body with a break after the first used descendant.
FirstPassNode_FirstMatchOnly(ns, node, used_undeclared, hash_order) ==
  LET RECURSIVE over(_)
      over(cs) ==
        IF cs = <<>> THEN <<>>
        ELSE LET child == Head(cs)
                 p1 == _find_path_in_tree(ns, node, simple_coordinate(ns[child]))
                 path == IF ~ p1.some
                         THEN _find_path_in_tree(ns, node, coordinate(ns[child]))
                         ELSE p1
                 path_strs == IF Truthy(path) THEN PathStrs(ns, path.path) ELSE <<>>
             IN IF IsUsed(ns, child, used_undeclared)
                THEN <<RedundancyCase(
                         simple_coordinate(ns[node]),
                         <<simple_coordinate(ns[child])>>,
                         path_strs,
                         "Remove '" \o simple_coordinate(ns[node])
                           \o "' and directly declare '"
                           \o simple_coordinate(ns[child]) \o "' instead")>>
                ELSE over(Tail(cs))
  IN IF ns[node].depth = 1
     THEN over(SetIter(ns, get_all_descendants(ns, node), hash_order))
     ELSE <<>>

\* analyze(), first loop, body for one matching node.
FirstPassNode(ns, node, used_undeclared, hash_order) ==
  LET RECURSIVE over(_)
      over(cs) ==
        IF cs = <<>> THEN <<>>
        ELSE LET child == Head(cs)
                 p1 == _find_path_in_tree(ns, node, simple_coordinate(ns[child]))
                 path == IF ~ p1.some
                         THEN _find_path_in_tree(ns, node, coordinate(ns[child]))
                         ELSE p1
                 path_strs == IF Truthy(path) THEN PathStrs(ns, path.path) ELSE <<>>
             IN (IF IsUsed(ns, child, used_undeclared)
                 THEN <<RedundancyCase(
                          simple_coordinate(ns[node]),
                          <<simple_coordinate(ns[child])>>,
                          path_strs,
                          "Remove '" \o simple_coordinate(ns[node])
                            \o "' and directly declare '"
                            \o simple_coordinate(ns[child]) \o "' instead")>>
                 ELSE <<>>) \o over(Tail(cs))
  IN IF ns[node].depth = 1
     THEN over(SetIter(ns, get_all_descendants(ns, node), hash_order))
     ELSE <<>>

\* The second loop's body looking at the node's children only.
SecondPassNode_ChildrenOnly(ns, node, used_undeclared, hash_order) ==
  LET used == SelectSeq(ns[node].children, LAMBDA d : IsUsed(ns, d, used_undeclared))
      actually_used_transitives == PathStrs(ns, used)
  IN IF ns[node].depth = 1 /\ actually_used_transitives # <<>>
     THEN <<RedundancyCase(
              simple_coordinate(ns[node]),
              actually_used_transitives,
              Unique(<<simple_coordinate(ns[node])>> \o actually_used_transitives),
              "Consider removing '" \o simple_coordinate(ns[node])
                \o "' and directly declaring its used transitive dependencies")>>
     ELSE <<>>

\* analyze(), second loop, body for one matching node.
SecondPassNode(ns, node, used_undeclared, hash_order) ==
  LET descendants == SetIter(ns, get_all_descendants(ns, node), hash_order)
      used == SelectSeq(descendants, LAMBDA d : IsUsed(ns, d, used_undeclared))
      actually_used_transitives == PathStrs(ns, used)
      RECURSIVE extend(_)
      extend(ts) ==
        IF ts = <<>> THEN <<>>
        ELSE LET path == _find_path_in_tree(ns, node, Head(ts))
             IN (IF Truthy(path) THEN PathStrs(ns, path.path) ELSE <<>>) \o extend(Tail(ts))
      unique_paths == Unique(extend(actually_used_transitives))
  IN IF ns[node].depth = 1 /\ actually_used_transitives # <<>>
     THEN <<RedundancyCase(
              simple_coordinate(ns[node]),
              actually_used_transitives,
              unique_paths,
              "Consider removing '" \o simple_coordinate(ns[node])
                \o "' and directly declaring its used transitive dependencies")>>
     ELSE <<>>

\* analyze(), first loop: a break at an entry without matching nodes.
FirstPass_StopAtMiss(ns, idx, unused_declared, used_undeclared, hash_order) ==
  LET RECURSIVE overNodes(_)
      overNodes(ms) ==
        IF ms = <<>> THEN <<>>
        ELSE FirstPassNode(ns, Head(ms), used_undeclared, hash_order) \o overNodes(Tail(ms))
      RECURSIVE overUnused(_)
      overUnused(us) ==
        IF us = <<>> \/ find_dependency(idx, Head(us)) = <<>> THEN <<>>
        ELSE overNodes(find_dependency(idx, Head(us))) \o overUnused(Tail(us))
  IN overUnused(unused_declared)

\* analyze(), first loop over analysis.unused_declared.
FirstPass(ns, idx, unused_declared, used_undeclared, hash_order) ==
  LET RECURSIVE overNodes(_)
      overNodes(ms) ==
        IF ms = <<>> THEN <<>>
        ELSE FirstPassNode(ns, Head(ms), used_undeclared, hash_order) \o overNodes(Tail(ms))
      RECURSIVE overUnused(_)
      overUnused(us) ==
        IF us = <<>> THEN <<>>
        ELSE overNodes(find_dependency(idx, Head(us))) \o overUnused(Tail(us))
  IN overUnused(unused_declared)

\* analyze(), second loop over analysis.unused_declared.
SecondPass(ns, idx, unused_declared, used_undeclared, hash_order) ==
  LET RECURSIVE overNodes(_)
      overNodes(ms) ==
        IF ms = <<>> THEN <<>>
        ELSE SecondPassNode(ns, Head(ms), used_undeclared, hash_order) \o overNodes(Tail(ms))
      RECURSIVE overUnused(_)
      overUnused(us) ==
        IF us = <<>> THEN <<>>
        ELSE overNodes(find_dependency(idx, Head(us))) \o overUnused(Tail(us))
  IN overUnused(unused_declared)

\* The third loop listing all versions of a conflict in actually_used.
ConflictCases_AllVersions(ns, group_order) ==
  LET version_conflicts == _detect_version_conflicts(ns, group_order)
  IN [i \in 1..Len(version_conflicts) |->
        RedundancyCase(
          version_conflicts[i].artifact,
          version_conflicts[i].versions,
          <<>>,
          "Multiple versions of '" \o version_conflicts[i].artifact \o "' detected: "
            \o ListRepr(version_conflicts[i].versions)
            \o ". Consider consolidating to a single version.")]

\* analyze(), third loop: one case per version conflict.
ConflictCases(ns, group_order) ==
  LET version_conflicts == _detect_version_conflicts(ns, group_order)
  IN [i \in 1..Len(version_conflicts) |->
        RedundancyCase(
          version_conflicts[i].artifact,
          Tail(version_conflicts[i].versions),
          <<>>,
          "Multiple versions of '" \o version_conflicts[i].artifact \o "' detected: "
            \o ListRepr(version_conflicts[i].versions)
            \o ". Consider consolidating to a single version.")]

\* analyze() with the second loop walking used_undeclared.
analyze_SecondPassOverUsed(ns, idx, unused_declared, used_undeclared, hash_order, group_order) ==
  FirstPass(ns, idx, unused_declared, used_undeclared, hash_order)
    \o SecondPass(ns, idx, used_undeclared, used_undeclared, hash_order)
    \o ConflictCases(ns, group_order)

\* analyze() with one loop over unused_declared doing both bodies per entry.
analyze_Interleaved(ns, idx, unused_declared, used_undeclared, hash_order, group_order) ==
  LET RECURSIVE overUnused(_)
      overUnused(us) ==
        IF us = <<>> THEN <<>>
        ELSE FirstPass(ns, idx, <<Head(us)>>, used_undeclared, hash_order)
               \o SecondPass(ns, idx, <<Head(us)>>, used_undeclared, hash_order)
               \o overUnused(Tail(us))
  IN overUnused(unused_declared) \o ConflictCases(ns, group_order)

\* RedundancyAnalyzer.analyze()
analyze(ns, idx, unused_declared, used_undeclared, hash_order, group_order) ==
  FirstPass(ns, idx, unused_declared, used_undeclared, hash_order)
    \o SecondPass(ns, idx, unused_declared, used_undeclared, hash_order)
    \o ConflictCases(ns, group_order)

\* One call of analyze() in progress: its arguments, the loop it is in
\* ("first", "second", "conflicts", then "done"), the position i of the
\* loop over unused_declared, and its local list redundancy_cases.
settle(run) ==
  LET n == Len(run.unused_declared)
  IN IF run.pc = "first" /\ run.i > n
     THEN IF n = 0 THEN [run EXCEPT !.pc = "conflicts", !.i = 1]
          ELSE [run EXCEPT !.pc = "second", !.i = 1]
     ELSE IF run.pc = "second" /\ run.i > n
          THEN [run EXCEPT !.pc = "conflicts", !.i = 1]
          ELSE run

\* analyze() entered: redundancy_cases = [].
analyze_enter(ns, idx, unused_declared, used_undeclared, hash_order, group_order) ==
  settle([nodes |-> ns, all_dependencies |-> idx,
          unused_declared |-> unused_declared, used_undeclared |-> used_undeclared,
          hash_order |-> hash_order, group_order |-> group_order,
          pc |-> "first", i |-> 1, redundancy_cases |-> <<>>])

\* One iteration of the loop the call is in, or the conflict loop as a whole.
analyze_step(run) ==
  IF run.pc = "first"
  THEN settle([run EXCEPT
         !.redundancy_cases = @ \o FirstPass(run.nodes, run.all_dependencies,
                                              <<run.unused_declared[run.i]>>,
                                              run.used_undeclared, run.hash_order),
         !.i = @ + 1])
  ELSE IF run.pc = "second"
  THEN settle([run EXCEPT
         !.redundancy_cases = @ \o SecondPass(run.nodes, run.all_dependencies,
                                               <<run.unused_declared[run.i]>>,
                                               run.used_undeclared, run.hash_order),
         !.i = @ + 1])
  ELSE IF run.pc = "conflicts"
  THEN [run EXCEPT
         !.redundancy_cases = @ \o ConflictCases(run.nodes, run.group_order),
         !.pc = "done"]
  ELSE run

\* A step of call k with redundancy_cases one list that all calls append to.
step_run_SharedCases(runs, k) ==
  LET stepped == analyze_step(runs[k])
  IN [j \in DOMAIN runs |->
        IF j = k THEN stepped
        ELSE [runs[j] EXCEPT !.redundancy_cases = stepped.redundancy_cases]]

\* A step of call k whose second loop never moves on to the next entry.
step_run_SecondLoopStuck(runs, k) ==
  [runs EXCEPT ![k] = IF @.pc = "second" THEN @ ELSE analyze_step(@)]

\* A step of call k of the calls in progress: redundancy_cases is a local
\* of the call, the other calls are not touched.
step_run(runs, k) == [runs EXCEPT ![k] = analyze_step(@)]

\* ------------------------------------------------------------- TreeParser
NoCall == [op |-> "none"]

Init ==
  /\ \E k \in Kinds : nodes = <<NewDependency(k, 0, 0)>>
  /\ stack = <<1>>
  /\ pc = "parsing"
  /\ all_dependencies = EmptyIndex
  /\ call = NoCall

\* _parse_node entered for the next child of the innermost active call.
ParseChild(kind) ==
  /\ pc = "parsing"
  /\ Len(nodes) < MaxNodes
  /\ LET parent == Last(stack)
     IN /\ nodes' = Append(nodes, NewDependency(kind, parent, nodes[parent].depth + 1))
        /\ stack' = Append(stack, Len(nodes) + 1)
  /\ UNCHANGED <<pc, all_dependencies, call>>

\* _parse_node returns to its caller, which appends the child it built.
ParseReturn ==
  /\ pc = "parsing"
  /\ Len(stack) > 1
  /\ LET child == Last(stack)
         parent == nodes[child].parent
     IN nodes' = [nodes EXCEPT ![parent].children = Append(@, child)]
  /\ stack' = Front(stack)
  /\ UNCHANGED <<pc, all_dependencies, call>>

\* The outermost _parse_node returns to parse(), which creates the tree
\* and builds its index.
ParseDone ==
  /\ pc = "parsing"
  /\ Len(stack) = 1
  /\ stack' = <<>>
  /\ pc' = "ready"
  /\ all_dependencies' = build_coordinate_index(nodes, EmptyIndex)
  /\ UNCHANGED <<nodes, call>>

\* DependencyTree(root=...) with its index built at once.
ConstructTree_Indexed ==
  /\ pc = "parsing"
  /\ Len(stack) = 1
  /\ stack' = <<>>
  /\ pc' = "unindexed"
  /\ all_dependencies' = build_coordinate_index(nodes, EmptyIndex)
  /\ UNCHANGED <<nodes, call>>

\* DependencyTree(root=...) constructed around the finished root and handed
\* out as it is: all_dependencies is the empty dict of its default factory.
ConstructTree ==
  /\ pc = "parsing"
  /\ Len(stack) = 1
  /\ stack' = <<>>
  /\ pc' = "unindexed"
  /\ all_dependencies' = EmptyIndex
  /\ UNCHANGED <<nodes, call>>

\* ------------------------------------------------- operations on the tree
\* The sequences over S of length at most n.
RECURSIVE SeqsUpTo(_, _)
SeqsUpTo(S, n) ==
  IF n = 0 THEN {<<>>}
  ELSE LET shorter == SeqsUpTo(S, n - 1)
       IN shorter \cup {Append(q, x) : q \in shorter, x \in S}

\* The orders in which the elements of S can be listed.
RECURSIVE Perms(_)
Perms(S) ==
  IF S = {} THEN {<<>>}
  ELSE UNION {{<<x>> \o q : q \in Perms(S \ {x})} : x \in S}

\* The lists a usage report (AnalysisResult) can hold.
UnusedReports == SeqsUpTo(UnusedCoords, MaxUnused)
UsedReports == SeqsUpTo(UsedCoords, MaxUsed)

\* The iteration orders string hashing can give the sets analyze() walks:
\* those hold descendants of depth-1 nodes.
HashOrders(ns) == Perms({coordinate(ns[i]) : i \in {j \in DOMAIN ns : ns[j].depth >= 2}})

\* The orders in which group_by can hand out the groups of the tree.
GroupOrders(ns) == Perms(GroupKeys(to_polars_df(ns)))

\* A tree exists and no call is in progress.
Idle == pc \in {"ready", "unindexed"} /\ call = NoCall

\* tree.build_coordinate_index() called again on the parsed tree.
BuildCoordinateIndex ==
  /\ Idle
  /\ all_dependencies' = build_coordinate_index(nodes, all_dependencies)
  /\ call' = [op |-> "build_coordinate_index", prior |-> all_dependencies]
  /\ pc' = "ready"
  /\ UNCHANGED <<nodes, stack>>

\* find_dependency written with all_dependencies.setdefault(coordinate, []).
FindDependency_SetDefault ==
  /\ Idle
  /\ \E c \in QueryCoords :
       /\ call' = [op |-> "find_dependency", coordinate |-> c,
                   result |-> find_dependency(all_dependencies, c)]
       /\ all_dependencies' =
            IF c \in DOMAIN all_dependencies THEN all_dependencies
            ELSE [k \in DOMAIN all_dependencies \cup {c} |->
                    IF k = c THEN <<>> ELSE all_dependencies[k]]
  /\ UNCHANGED <<nodes, stack, pc>>

Flatten ==
  /\ Idle
  /\ call' = [op |-> "flatten", result |-> flatten(nodes)]
  /\ UNCHANGED <<nodes, stack, pc, all_dependencies>>

\* The caller changes the tree: parent.children.append(Dependency(...)) on
\* a node of the tree. The index is left as it was.
AppendChild ==
  /\ Idle
  /\ Len(nodes) < MaxNodes
  /\ \E parent \in Range(flatten(nodes)), kind \in Kinds :
       nodes' = [Append(nodes, NewDependency(kind, parent, nodes[parent].depth + 1))
                   EXCEPT ![parent].children = Append(@, Len(nodes) + 1)]
  /\ pc' = "unindexed"
  /\ UNCHANGED <<stack, all_dependencies, call>>

\* The caller changes the tree: one entry of the children list of a node of
\* the tree is deleted. The child object and its subtree go on existing,
\* its parent field included, and the index is left as it was.
RemoveChild ==
  /\ Idle
  /\ \E parent \in Range(flatten(nodes)) : \E i \in DOMAIN nodes[parent].children :
       nodes' = [nodes EXCEPT ![parent].children =
                   SubSeq(@, 1, i - 1) \o SubSeq(@, i + 1, Len(@))]
  /\ pc' = "unindexed"
  /\ UNCHANGED <<stack, all_dependencies, call>>

FindDependency ==
  /\ Idle
  /\ \E c \in QueryCoords :
       call' = [op |-> "find_dependency", coordinate |-> c,
                result |-> find_dependency(all_dependencies, c)]
  /\ UNCHANGED <<nodes, stack, pc, all_dependencies>>

\* TreeAnalyzer().get_dependency_paths(tree, target).
GetDependencyPaths ==
  /\ Idle
  /\ \E target \in QueryCoords :
       call' = [op |-> "get_dependency_paths", target |-> target,
                result |-> get_dependency_paths(nodes, target)]
  /\ UNCHANGED <<nodes, stack, pc, all_dependencies>>

\* TreeAnalyzer().get_statistics(tree), with the tree's own two counts
\* read next to it.
GetStatistics ==
  /\ Idle
  /\ call' = [op |-> "get_statistics", result |-> get_statistics(nodes),
              total_dependencies |-> total_dependencies(nodes),
              direct_dependencies |-> direct_dependencies(nodes)]
  /\ UNCHANGED <<nodes, stack, pc, all_dependencies>>

MaxDepth ==
  /\ Idle
  /\ call' = [op |-> "max_depth", result |-> max_depth(nodes)]
  /\ UNCHANGED <<nodes, stack, pc, all_dependencies>>

GetAllDescendants ==
  /\ Idle
  /\ \E n \in DOMAIN nodes :
       call' = [op |-> "get_all_descendants", node |-> n,
                result |-> get_all_descendants(nodes, n)]
  /\ UNCHANGED <<nodes, stack, pc, all_dependencies>>

FindPathTo ==
  /\ Idle
  /\ \E n \in DOMAIN nodes, target \in QueryCoords :
       call' = [op |-> "find_path_to", node |-> n, target |-> target,
                result |-> find_path_to(nodes, n, target)]
  /\ UNCHANGED <<nodes, stack, pc, all_dependencies>>

FindPathInTree ==
  /\ Idle
  /\ \E n \in DOMAIN nodes, target \in QueryCoords :
       call' = [op |-> "_find_path_in_tree", node |-> n, target |-> target,
                result |-> _find_path_in_tree(nodes, n, target)]
  /\ UNCHANGED <<nodes, stack, pc, all_dependencies>>

DetectVersionConflicts ==
  /\ Idle
  /\ \E group_order \in GroupOrders(nodes) :
       call' = [op |-> "_detect_version_conflicts", group_order |-> group_order,
                result |-> _detect_version_conflicts(nodes, group_order)]
  /\ UNCHANGED <<nodes, stack, pc, all_dependencies>>

Analyze ==
  /\ Idle
  /\ \E hash_order \in HashOrders(nodes), group_order \in GroupOrders(nodes),
        unused_declared \in UnusedReports, used_undeclared \in UsedReports :
       call' = [op |-> "analyze",
                unused_declared |-> unused_declared,
                used_undeclared |-> used_undeclared,
                hash_order |-> hash_order,
                group_order |-> group_order,
                result |-> analyze(nodes, all_dependencies, unused_declared,
                                   used_undeclared, hash_order, group_order)]
  /\ UNCHANGED <<nodes, stack, pc, all_dependencies>>

\* A second, independent tree: g:B:1.0 -> g:A:1.0 -> g:B:1.0.
OtherNodes ==
  LET A == [group_id |-> "g", artifact_id |-> "A", version |-> "1.0",
            scope |-> "compile", type |-> "jar"]
      B == [group_id |-> "g", artifact_id |-> "B", version |-> "1.0",
            scope |-> "compile", type |-> "jar"]
  IN << [NewDependency(B, 0, 0) EXCEPT !.children = <<2>>],
        [NewDependency(A, 1, 1) EXCEPT !.children = <<3>>],
        NewDependency(B, 2, 2) >>

\* The reports of the calls that run side by side.
RunUnused == {<<"g:A:1.0">>, <<"g:A:jar:1.0:compile", "g:A:1.0">>}
RunUsed == {<<"g:A:1.0", "g:B:1.0">>}

\* A call of analyze() on the parsed tree.
RunsOnTree ==
  {analyze_enter(nodes, all_dependencies, u, v, h, g) :
     u \in RunUnused, v \in RunUsed, h \in HashOrders(nodes), g \in GroupOrders(nodes)}

\* A call of analyze() on the other tree.
RunsOnOther ==
  {analyze_enter(OtherNodes, build_coordinate_index(OtherNodes, EmptyIndex),
                 <<"g:A:1.0">>, <<"g:B:1.0">>, h, g) :
     h \in HashOrders(OtherNodes), g \in GroupOrders(OtherNodes)}

\* analyze() is entered by one caller, on a tree of up to MaxRunNodes nodes.
StartRun ==
  /\ Idle
  /\ pc = "ready"
  /\ Len(nodes) <= MaxRunNodes
  /\ \E first \in RunsOnTree :
       call' = [op |-> "analyze_runs", runs |-> <<first>>]
  /\ UNCHANGED <<nodes, stack, pc, all_dependencies>>

\* analyze() is entered by two callers with analyzers of their own, the
\* second on an independent tree and report.
StartRunPair ==
  /\ Idle
  /\ pc = "ready"
  /\ \E first \in RunsOnTree, second \in RunsOnOther :
       call' = [op |-> "analyze_runs", runs |-> <<first, second>>]
  /\ UNCHANGED <<nodes, stack, pc, all_dependencies>>

\* The scheduler lets call k do its next step.
StepRun(k) ==
  /\ call.op = "analyze_runs"
  /\ k \in DOMAIN call.runs
  /\ call.runs[k].pc # "done"
  /\ call' = [call EXCEPT !.runs = step_run(@, k)]
  /\ UNCHANGED <<nodes, stack, pc, all_dependencies>>

StepRuns == StepRun(1) \/ StepRun(2)

\* Every call in progress has returned its list.
RunsDone ==
  call.op = "analyze_runs" => \A k \in DOMAIN call.runs : call.runs[k].pc = "done"

\* The RedundancyCase objects a caller constructs and reads severity of.
Cases ==
  {RedundancyCase("g:A:1.0", used, path, "Remove 'g:A:1.0'") :
     used \in {<<>>, <<"g:B:1.0">>},
     path \in {<<>>, <<"g:A:1.0", "g:B:1.0">>}}

\* case.severity read on a RedundancyCase.
Severity ==
  /\ Idle
  /\ \E case \in Cases :
       call' = [op |-> "severity", case |-> case, result |-> severity(case)]
  /\ UNCHANGED <<nodes, stack, pc, all_dependencies>>

\* The caller takes the result; the tree is ready for the next operation.
Return ==
  /\ pc # "parsing" /\ call # NoCall
  /\ RunsDone
  /\ call' = NoCall
  /\ UNCHANGED <<nodes, stack, pc, all_dependencies>>

ParseChildAny == \E k \in Kinds : ParseChild(k)

Parse ==
  \/ ParseChildAny
  \/ ParseReturn
  \/ ParseDone

TreeOps ==
  \/ BuildCoordinateIndex
  \/ FindDependency
  \/ Flatten
  \/ MaxDepth
  \/ GetAllDescendants
  \/ FindPathTo
  \/ FindPathInTree
  \/ DetectVersionConflicts
  \/ GetDependencyPaths
  \/ GetStatistics
  \/ Return

Next ==
  \/ Parse
  \/ TreeOps
  \/ Analyze
  \/ Severity

NextTree == Parse \/ TreeOps

\* The whole program: parsing, the tree's operations and the analyzer.
Spec == Init /\ [][Next]_vars

\* Parsing and the tree's operations alone.
SpecTree == Init /\ [][NextTree]_vars

\* A tree constructed directly, build_coordinate_index never called on it.
NextUnindexed ==
  \/ ParseChildAny
  \/ ParseReturn
  \/ ConstructTree
  \/ FindDependency
  \/ Analyze
  \/ Return

SpecUnindexed == Init /\ [][NextUnindexed]_vars

\* --------------------------------------------------------- AnalysisParser
\* The two section headers _parse_content() looks for.
UsedHeader == "Used undeclared dependencies found:"
UnusedHeader == "Unused declared dependencies found:"

\* What follows the level tag on a line of the report: a header, a text the
\* coordinate pattern matches, or the Building line of the project.
CoordTexts == {"g:A:jar:1.0:compile", "g:B:jar:1.0:compile", "BUILD:SUCCESS"}
Bodies == {UsedHeader, UnusedHeader, "Building g:P:1.0"} \cup CoordTexts

\* A line of the report: "[WARNING] body", "[INFO] body" or an empty line.
Lines ==
  [level : {"WARNING", "INFO"}, body : Bodies] \cup {[level |-> "", body |-> ""]}

\* The contents a report file can have, split at the line ends.
Contents == SeqsUpTo(Lines, MaxLines)

\* re.search(r'\[WARNING\]\s+(coordinate)', line): the coordinate text that
\* directly follows the WARNING tag, "" when the pattern does not match.
coord_match(line) ==
  IF line.level = "WARNING" /\ line.body \in CoordTexts THEN line.body ELSE ""

\* coord.startswith('BUILD') or coord.startswith('Total').
StartsWithBuildOrTotal(coord) == coord \in {"BUILD:SUCCESS"}

\* The loop of _extract_section_from_warnings() over the lines: a line
\* holding the header opens the section; inside it a line the pattern
\* matches gives a coordinate, and a line with [INFO] and without [WARNING]
\* that the pattern does not match ends the scan.
RECURSIVE _extract_section_from_warnings_scan(_, _, _, _)
_extract_section_from_warnings_scan(lines, section_header, in_section, dependencies) ==
  IF lines = <<>> THEN dependencies
  ELSE LET line == Head(lines)
       IN IF line.body = section_header
          THEN _extract_section_from_warnings_scan(Tail(lines), section_header, TRUE, dependencies)
          ELSE IF ~ in_section
          THEN _extract_section_from_warnings_scan(Tail(lines), section_header, FALSE, dependencies)
          ELSE IF coord_match(line) # ""
          THEN _extract_section_from_warnings_scan(Tail(lines), section_header, TRUE,
                 IF StartsWithBuildOrTotal(coord_match(line)) THEN dependencies
                 ELSE Append(dependencies, coord_match(line)))
          ELSE IF line.level = "INFO"
          THEN dependencies
          ELSE _extract_section_from_warnings_scan(Tail(lines), section_header, TRUE, dependencies)

_extract_section_from_warnings(content, section_header) ==
  _extract_section_from_warnings_scan(content, section_header, FALSE, <<>>)

\* _parse_content(): the project coordinate of the first Building line and
\* the two sections.
_parse_content(content) ==
  [project_coordinate |->
     IF \E i \in DOMAIN content : content[i].body = "Building g:P:1.0"
     THEN "g:P:1.0" ELSE "unknown:unknown:unknown",
   used_undeclared |-> _extract_section_from_warnings(content, UsedHeader),
   unused_declared |-> _extract_section_from_warnings(content, UnusedHeader)]

\* AnalysisParser.parse() has read the report file.
InitReport ==
  /\ nodes = <<>>
  /\ stack = <<>>
  /\ pc = "report"
  /\ all_dependencies = EmptyIndex
  /\ \E content \in Contents : call = [op |-> "read", content |-> content]

\* One section taken out of the content that was read.
ExtractSectionFromWarnings ==
  /\ pc = "report" /\ call.op = "read"
  /\ \E section_header \in {UsedHeader, UnusedHeader} :
       call' = [op |-> "_extract_section_from_warnings", content |-> call.content,
                section_header |-> section_header,
                result |-> _extract_section_from_warnings(call.content, section_header)]
  /\ UNCHANGED <<nodes, stack, pc, all_dependencies>>

\* parse() hands the content to _parse_content().
ParseContent ==
  /\ pc = "report" /\ call.op = "read"
  /\ call' = [op |-> "_parse_content", content |-> call.content,
              result |-> _parse_content(call.content)]
  /\ UNCHANGED <<nodes, stack, pc, all_dependencies>>

NextReport == ExtractSectionFromWarnings \/ ParseContent

\* The report parser on every report of up to MaxLines lines.
SpecReport == InitReport /\ [][NextReport]_vars

\* A parsed tree that its holder goes on changing and re-indexing.
NextRebuild ==
  \/ Parse
  \/ AppendChild
  \/ RemoveChild
  \/ BuildCoordinateIndex
  \/ Flatten
  \/ Return

SpecRebuild == Init /\ [][NextRebuild]_vars

\* Two calls of analyze() side by side, taken loop iteration by loop
\* iteration and interleaved in every way.
NextRuns ==
  \/ Parse
  \/ StartRunPair
  \/ StepRuns
  \/ Return

SpecRuns == Init /\ [][NextRuns]_vars

\* One call of analyze(), taken loop iteration by loop iteration. The call
\* is synchronous: the interpreter goes on with it until it returns.
NextRun ==
  \/ Parse
  \/ StartRun
  \/ StepRun(1)
  \/ Return

SpecRun == Init /\ [][NextRun]_vars /\ WF_vars(StepRun(1))
\* ======================================================= properties
\* What the properties are stated with: the tree as the parent references
\* describe it.  Objects are created in pre-order, so a smaller identity is
\* an earlier node of the pre-order.
RECURSIVE AncestorsOf(_, _)
AncestorsOf(ns, n) ==
  IF ns[n].parent = 0 THEN {} ELSE {ns[n].parent} \cup AncestorsOf(ns, ns[n].parent)

Below(ns, a) == {d \in DOMAIN ns : a \in AncestorsOf(ns, d)}

Carries(ns, n, c) == coordinate(ns[n]) = c \/ simple_coordinate(ns[n]) = c

SetMin(S) == CHOOSE x \in S : \A y \in S : x <= y

RECURSIVE ChainFrom(_, _, _)
ChainFrom(ns, a, d) == IF d = a THEN <<a>> ELSE Append(ChainFrom(ns, a, ns[d].parent), d)

PreOrder(ns) == [i \in 1..Len(ns) |-> i]

IsChildOf(ns, c, p) == \E i \in DOMAIN ns[p].children : ns[p].children[i] = c

PerMatchText(a, b) == "Remove '" \o a \o "' and directly declare '" \o b \o "' instead"
AggregateText(a) ==
  "Consider removing '" \o a \o "' and directly declaring its used transitive dependencies"

Called(op) == pc = "ready" /\ call.op = op

\* C1: on an indexed tree with A at depth 1 and B below A, when
\* unused_declared holds A's simple coordinate and used_undeclared holds B's,
\* analyze returns a per-match finding (A, [B], the chain from A to the first
\* pre-order node carrying B's simple coordinate) and an aggregate finding
\* for A.
C1_DeclaredButTransitiveUsed ==
  Called("analyze") =>
    \A a \in DOMAIN nodes, b \in DOMAIN nodes :
      ( /\ nodes[a].depth = 1
        /\ b \in Below(nodes, a)
        /\ simple_coordinate(nodes[a]) \in Range(call.unused_declared)
        /\ simple_coordinate(nodes[b]) \in Range(call.used_undeclared) )
      => LET sa == simple_coordinate(nodes[a])
             sb == simple_coordinate(nodes[b])
             first == SetMin({d \in {a} \cup Below(nodes, a) : Carries(nodes, d, sb)})
         IN /\ \E i \in DOMAIN call.result :
                 call.result[i] =
                   RedundancyCase(sa, <<sb>>, PathStrs(nodes, ChainFrom(nodes, a, first)),
                                  PerMatchText(sa, sb))
            /\ \E j \in DOMAIN call.result :
                 /\ call.result[j].declared_dependency = sa
                 /\ call.result[j].recommendation = AggregateText(sa)

\* root -> A -> B with ["g:A:1.0"] unused and ["g:B:1.0"] used.
C1_Witness ==
  /\ Called("analyze")
  /\ Len(nodes) = 3
  /\ nodes[2].parent = 1 /\ simple_coordinate(nodes[2]) = "g:A:1.0"
  /\ nodes[3].parent = 2 /\ simple_coordinate(nodes[3]) = "g:B:1.0"
  /\ call.unused_declared = <<"g:A:1.0">>
  /\ call.used_undeclared = <<"g:B:1.0">>
  /\ Len(call.result) >= 2
  /\ call.result[1].dependency_path = <<"g:A:1.0", "g:B:1.0">>
  /\ call.result[1].actually_used = <<"g:B:1.0">>

\* C2: an unused_declared entry in simple form may be replaced by the full
\* form of the same node without changing what analyze returns.
C2_BothFormsInterchangeable ==
  Called("analyze") =>
    \A i \in DOMAIN call.unused_declared, n \in DOMAIN nodes :
      call.unused_declared[i] = simple_coordinate(nodes[n])
      => analyze(nodes, all_dependencies,
                 [call.unused_declared EXCEPT ![i] = coordinate(nodes[n])],
                 call.used_undeclared, call.hash_order, call.group_order)
           = call.result

\* C3: find_dependency(c) returns the nodes whose full or simple coordinate
\* is c, in pre-order.
C3_FindReturnsBothForms ==
  Called("find_dependency") =>
    call.result = SelectSeq(PreOrder(nodes), LAMBDA n : Carries(nodes, n, call.coordinate))

\* C4: build_coordinate_index on an indexed, unchanged tree leaves the index
\* as it was.
C4_BuildIndexIdempotent ==
  [][(pc = "ready" /\ call'.op = "build_coordinate_index")
       => all_dependencies' = all_dependencies]_vars

\* The index was rebuilt on a tree where one key holds two nodes.
C4_Witness ==
  /\ Called("build_coordinate_index")
  /\ \E k \in DOMAIN all_dependencies : Len(all_dependencies[k]) >= 2

\* C5: get_all_descendants(root) holds every node below the root once, as
\* its own instance: total_dependencies - 1 elements, the root not among
\* them.
C5_RootDescendantsAllNodes ==
  (Called("get_all_descendants") /\ call.node = 1) =>
    /\ call.result = Below(nodes, 1)
    /\ Cardinality(call.result) = Len(flatten(nodes)) - 1
    /\ 1 \notin call.result

\* C6: searching from S for the simple or full coordinate of a node below S
\* finds a path: it starts at S, ends at a node carrying the target, and
\* each element is a child of the one before.
C6_PathToDescendantFound ==
  ( /\ Called("_find_path_in_tree") \/ Called("find_path_to")
    /\ \E d \in Below(nodes, call.node) : Carries(nodes, d, call.target) )
  => /\ call.result.some
     /\ LET path == call.result.path
        IN /\ Len(path) >= 1
           /\ path[1] = call.node
           /\ Carries(nodes, path[Len(path)], call.target)
           /\ \A i \in 1..(Len(path) - 1) : IsChildOf(nodes, path[i + 1], path[i])

\* A path of three nodes was found.
C6_Witness ==
  /\ Called("_find_path_in_tree")
  /\ call.result.some
  /\ Len(call.result.path) = 3
  /\ ~ Carries(nodes, call.node, call.target)

\* C7: searching from S for a coordinate that neither S nor a node below S
\* carries returns None.
C7_PathToAbsentIsNone ==
  ( /\ Called("_find_path_in_tree") \/ Called("find_path_to")
    /\ \A d \in {call.node} \cup Below(nodes, call.node) : ~ Carries(nodes, d, call.target) )
  => call.result = None

\* The search went through a subtree of three nodes and found nothing,
\* although another part of the tree carries the target.
C7_Witness ==
  /\ Called("find_path_to")
  /\ call.result = None
  /\ Cardinality(Below(nodes, call.node)) = 2
  /\ \E d \in DOMAIN nodes : Carries(nodes, d, call.target)

\* C8: a conflict for group:artifact is reported exactly when the tree, the
\* root included, holds that artifact at two or more versions; its versions
\* are the distinct ones, ascending.
C8_ConflictIffTwoVersions ==
  Called("_detect_version_conflicts") =>
    \A k \in Kinds :
      LET versions == {nodes[n].version : n \in {m \in DOMAIN nodes :
                          /\ nodes[m].group_id = k.group_id
                          /\ nodes[m].artifact_id = k.artifact_id}}
          artifact == k.group_id \o ":" \o k.artifact_id
          items == {i \in DOMAIN call.result : call.result[i].artifact = artifact}
      IN /\ (items # {}) <=> (Cardinality(versions) >= 2)
         /\ versions = {"1.0", "2.0"} =>
              \A i \in items : call.result[i].versions = <<"1.0", "2.0">>

\* g:A at 1.0 and 2.0, one of them only at the root, and g:B at one version
\* in two places.
C8_Witness ==
  /\ Called("_detect_version_conflicts")
  /\ call.result = <<[artifact |-> "g:A", versions |-> <<"1.0", "2.0">>]>>
  /\ nodes[1].artifact_id = "A"
  /\ \A n \in DOMAIN nodes : n # 1 /\ nodes[n].artifact_id = "A" => nodes[n].version # nodes[1].version
  /\ Cardinality({n \in DOMAIN nodes : nodes[n].artifact_id = "B"}) = 2

\* C9: unused_declared entries that are no key of the index contribute
\* nothing: analyze returns what it returns without them.
C9_UnregisteredEntrySkipped ==
  Called("analyze") =>
    call.result =
      analyze(nodes, all_dependencies,
              SelectSeq(call.unused_declared, LAMBDA u : u \in DOMAIN all_dependencies),
              call.used_undeclared, call.hash_order, call.group_order)

\* An unregistered entry ahead of a registered one that yields findings.
C9_Witness ==
  /\ Called("analyze")
  /\ Len(call.unused_declared) = 2
  /\ call.unused_declared[1] \notin DOMAIN all_dependencies
  /\ call.unused_declared[2] \in DOMAIN all_dependencies
  /\ \E i \in DOMAIN call.result : call.result[i].dependency_path # <<>>

\* C10: with an empty unused_declared, analyze returns the version-conflict
\* items and nothing else; on a tree of the root alone it returns nothing.
C10_EmptyInputs ==
  Called("analyze") =>
    /\ call.unused_declared = <<>> =>
         /\ call.result = ConflictCases(nodes, call.group_order)
         /\ \A i \in DOMAIN call.result : call.result[i].dependency_path = <<>>
    /\ Len(nodes) = 1 => call.result = <<>>

\* No unused entry, a used entry that a node below a direct dependency
\* carries, and a version conflict in the tree.
C10_Witness ==
  /\ Called("analyze")
  /\ call.unused_declared = <<>>
  /\ \E a \in DOMAIN nodes, b \in DOMAIN nodes :
       /\ nodes[a].depth = 1 /\ b \in Below(nodes, a)
       /\ simple_coordinate(nodes[b]) \in Range(call.used_undeclared)
  /\ Len(call.result) = 1
\* ------------------------------------------------------------------ C11
Count(s, x) == Cardinality({i \in DOMAIN s : s[i] = x})

SameBag(s, t) ==
  /\ Len(s) = Len(t)
  /\ \A x \in Range(s) \cup Range(t) : Count(s, x) = Count(t, x)

\* 1: per-match finding, 2: aggregate finding, 3: version-conflict item.
Rank(f) ==
  IF f.recommendation = AggregateText(f.declared_dependency) THEN 2
  ELSE IF /\ Len(f.actually_used) = 1
          /\ f.recommendation = PerMatchText(f.declared_dependency, f.actually_used[1])
       THEN 1
       ELSE 3

\* The findings of one pass for the entries of `us`, entry by entry.
PerMatchOfEntries(us) ==
  LET RECURSIVE over(_)
      over(rest) ==
        IF rest = <<>> THEN <<>>
        ELSE FirstPass(nodes, all_dependencies, <<Head(rest)>>,
                       call.used_undeclared, call.hash_order) \o over(Tail(rest))
  IN over(us)

AggregateOfEntries(us) ==
  LET RECURSIVE over(_)
      over(rest) ==
        IF rest = <<>> THEN <<>>
        ELSE SecondPass(nodes, all_dependencies, <<Head(rest)>>,
                        call.used_undeclared, call.hash_order) \o over(Tail(rest))
  IN over(us)

\* Everything analyze() finds for the entry at position i.
FindingsOfEntry(i) ==
  PerMatchOfEntries(<<call.unused_declared[i]>>)
    \o AggregateOfEntries(<<call.unused_declared[i]>>)

\* Number of findings of the entries before position i.
RECURSIVE OffsetOfEntry(_)
OffsetOfEntry(i) ==
  IF i = 1 THEN 0 ELSE OffsetOfEntry(i - 1) + Len(FindingsOfEntry(i - 1))

C12_DepthAndMaxDepth ==
  /\ nodes[1].depth = 0 /\ nodes[1].parent = 0
  /\ \A n \in DOMAIN nodes \ {1} :
       /\ nodes[n].parent \in DOMAIN nodes
       /\ nodes[n].depth = nodes[nodes[n].parent].depth + 1
  /\ Called("max_depth") =>
       /\ \A n \in DOMAIN nodes : nodes[n].depth <= call.result
       /\ \E n \in DOMAIN nodes : nodes[n].depth = call.result
       /\ Len(nodes) = 1 => call.result = 0

\* max_depth of a tree whose deepest node is not a direct dependency.
C12_Witness ==
  /\ Called("max_depth")
  /\ call.result = 2
  /\ \E n \in DOMAIN nodes : nodes[n].depth = 1 /\ nodes[n].children = <<>>

\* ------------------------------------------------------------------ C13
\* C13: on a tree whose build_coordinate_index was never called,
\* find_dependency returns the empty sequence for every coordinate and
\* analyze returns no redundancy finding, only the version conflicts.
C13_UnindexedLookupsEmpty ==
  pc = "unindexed" =>
    /\ call.op = "find_dependency" => call.result = <<>>
    /\ call.op = "analyze" =>
         /\ call.result = ConflictCases(nodes, call.group_order)
         /\ \A i \in DOMAIN call.result : Rank(call.result[i]) = 3

\* analyze on an un-indexed tree that has a version conflict, for a report
\* that yields redundancy findings once the index is built.
C13_Witness ==
  /\ pc = "unindexed"
  /\ call.op = "analyze"
  /\ FirstPass(nodes, build_coordinate_index(nodes, EmptyIndex),
               call.unused_declared, call.used_undeclared,
               call.hash_order) # <<>>
  /\ call.result # <<>>
\* ------------------------------------------------------------------ C14
\* C14: analyze is a function of the tree and the usage report alone: the
\* findings, their order and their actually_used and dependency_path are
\* the same whatever the iteration order of the descendant sets and the
\* order of the groups.
C14_Deterministic ==
  Called("analyze") =>
    \A hash_order \in HashOrders(nodes), group_order \in GroupOrders(nodes) :
      analyze(nodes, all_dependencies, call.unused_declared,
              call.used_undeclared, hash_order, group_order) = call.result
\* ------------------------------------------------------------------ C15
\* The nodes at or below a that carry coordinate c.
CarriersFrom(ns, a, c) == {d \in {a} \cup Below(ns, a) : Carries(ns, d, c)}

\* C15: the path search is depth-first, pre-order, first-match: a start node
\* that matches is the whole path; otherwise the path goes through the first
\* child, in stored order, whose subtree holds a match, and ends at the
\* first match in pre-order, whatever the length of the paths through later
\* children.
C15_FirstMatchPreOrder ==
  ( /\ Called("_find_path_in_tree") \/ Called("find_path_to")
    /\ CarriersFrom(nodes, call.node, call.target) # {} )
  => LET start == call.node
         children == nodes[start].children
         holds(i) == CarriersFrom(nodes, children[i], call.target) # {}
     IN /\ call.result.some
        /\ Carries(nodes, start, call.target) => call.result.path = <<start>>
        /\ ~ Carries(nodes, start, call.target) =>
             /\ Len(call.result.path) >= 2
             /\ \E i \in DOMAIN children :
                  /\ holds(i)
                  /\ \A j \in 1..(i - 1) : ~ holds(j)
                  /\ call.result.path[2] = children[i]
        /\ call.result.path =
             ChainFrom(nodes, start, SetMin(CarriersFrom(nodes, start, call.target)))

\* The path found has three nodes although a later child of the start node
\* is itself a match.
C15_Witness ==
  /\ Called("_find_path_in_tree")
  /\ call.result.some
  /\ Len(call.result.path) = 3
  /\ \E i \in DOMAIN nodes[call.node].children :
       /\ Carries(nodes, nodes[call.node].children[i], call.target)
       /\ nodes[call.node].children[i] # call.result.path[2]
\* ------------------------------------------------------------------ C16
\* The direct dependencies a finding may name: at depth 1, named by an entry
\* of unused_declared, with a descendant that is in used_undeclared.
Redundant(ns, unused_declared, used_undeclared) ==
  {n \in DOMAIN ns :
     /\ ns[n].depth = 1
     /\ simple_coordinate(ns[n]) \in Range(unused_declared)
     /\ \E d \in Below(ns, n) : IsUsed(ns, d, used_undeclared)}

\* C16: every per-match or aggregate finding names, as declared_dependency,
\* a node at depth exactly 1 that an unused_declared entry names and that
\* has a descendant in used_undeclared; everything else analyze returns is
\* a version-conflict item.
C16_FindingsSound ==
  Called("analyze") =>
    \A i \in DOMAIN call.result :
      LET f == call.result[i]
      IN /\ Rank(f) \in {1, 2} =>
              \E n \in Redundant(nodes, call.unused_declared, call.used_undeclared) :
                 simple_coordinate(nodes[n]) = f.declared_dependency
         /\ Rank(f) = 3 => f \in Range(ConflictCases(nodes, call.group_order))

\* A finding is returned for a direct dependency while the entry also names
\* the root, which has used descendants, and nothing is returned for it
\* beyond the direct dependency's own findings.
C16_Witness ==
  /\ Called("analyze")
  /\ \E i \in DOMAIN call.result : Rank(call.result[i]) = 1
  /\ simple_coordinate(nodes[1]) \in Range(call.unused_declared)
  /\ \E d \in Below(nodes, 1) : nodes[d].depth = 1 /\ IsUsed(nodes, d, call.used_undeclared)
  /\ Cardinality(Redundant(nodes, call.unused_declared, call.used_undeclared)) = 1
\* ------------------------------------------------------------------ C17
\* The position of version v in the ascending order of version strings.
VersionRank(v) == CHOOSE i \in DOMAIN VersionsAscending : VersionsAscending[i] = v

\* The nodes of artifact "group:artifact".
NodesOfArtifact(ns, artifact) ==
  {n \in DOMAIN ns : ns[n].group_id \o ":" \o ns[n].artifact_id = artifact}

\* C17: an artifact that the tree holds at two or more versions has exactly
\* one version-conflict item however many nodes of the tree hold it, and
\* the item's versions are the distinct versions of the artifact's nodes,
\* strictly ascending.
C17_OneItemSortedDistinct ==
  Called("_detect_version_conflicts") =>
    /\ \A n, m \in DOMAIN nodes :
         ( /\ nodes[n].group_id = nodes[m].group_id
           /\ nodes[n].artifact_id = nodes[m].artifact_id
           /\ nodes[n].version # nodes[m].version )
         => \E i \in DOMAIN call.result : n \in NodesOfArtifact(nodes, call.result[i].artifact)
    /\ \A i, j \in DOMAIN call.result :
         call.result[i].artifact = call.result[j].artifact => i = j
    /\ \A i \in DOMAIN call.result :
         LET versions == call.result[i].versions
             holders == NodesOfArtifact(nodes, call.result[i].artifact)
         IN /\ Range(versions) = {nodes[n].version : n \in holders}
            /\ Len(versions) >= 2
            /\ \A p, q \in DOMAIN versions :
                 p < q => VersionRank(versions[p]) < VersionRank(versions[q])

\* One item for an artifact that four nodes hold, each version twice.
C17_Witness ==
  /\ Called("_detect_version_conflicts")
  /\ Len(call.result) = 1
  /\ Cardinality(NodesOfArtifact(nodes, call.result[1].artifact)) = 4
  /\ \A v \in Range(call.result[1].versions) :
       Cardinality({n \in DOMAIN nodes : nodes[n].version = v}) = 2
\* ------------------------------------------------------------------ C18
NoRepeats(xs) == \A p, q \in DOMAIN xs : xs[p] = xs[q] => p = q

\* C18: no coordinate string occurs twice in the actually_used of a
\* redundancy finding, the aggregate finding included.
C18_ActuallyUsedNoRepeats ==
  Called("analyze") =>
    \A i \in DOMAIN call.result :
      Rank(call.result[i]) \in {1, 2} => NoRepeats(call.result[i].actually_used)
\* ------------------------------------------------------------------ C19
\* xs without the elements that occurred earlier in it.
FirstOccurrences(xs) ==
  LET RECURSIVE from(_)
      from(k) ==
        IF k > Len(xs) THEN <<>>
        ELSE (IF \A j \in 1..(k - 1) : xs[j] # xs[k] THEN <<xs[k]>> ELSE <<>>)
               \o from(k + 1)
  IN from(1)

\* The first-found paths from n to each of the targets, as simple
\* coordinates, one after the other.
PathsTo(ns, n, targets) ==
  LET RECURSIVE over(_)
      over(ts) ==
        IF ts = <<>> THEN <<>>
        ELSE PathStrs(ns, ChainFrom(ns, n, SetMin(CarriersFrom(ns, n, Head(ts)))))
               \o over(Tail(ts))
  IN over(targets)

\* C19: the dependency_path of the aggregate finding of a direct node N is
\* the concatenation of the first-found paths from N to each entry of
\* actually_used with later repetitions dropped: no coordinate repeats, the
\* first element is N's simple coordinate and every entry of actually_used
\* is in it.
C19_AggregatePath ==
  Called("analyze") =>
    \A i \in DOMAIN call.result :
      LET f == call.result[i]
      IN Rank(f) = 2 =>
           /\ \E n \in Redundant(nodes, call.unused_declared, call.used_undeclared) :
                /\ simple_coordinate(nodes[n]) = f.declared_dependency
                /\ \A t \in Range(f.actually_used) : CarriersFrom(nodes, n, t) # {}
                /\ f.dependency_path
                     = FirstOccurrences(PathsTo(nodes, n, f.actually_used))
           /\ NoRepeats(f.dependency_path)
           /\ f.dependency_path[1] = f.declared_dependency
           /\ Range(f.actually_used) \subseteq Range(f.dependency_path)

\* An aggregate finding with two different coordinates used, whose paths
\* share nodes: the path is shorter than the two paths together.
C19_Witness ==
  /\ Called("analyze")
  /\ \E i \in DOMAIN call.result :
       LET f == call.result[i]
       IN /\ Rank(f) = 2
          /\ Len(f.actually_used) = 2
          /\ NoRepeats(f.actually_used)
          /\ Len(f.dependency_path) = 2
          /\ \E n \in DOMAIN nodes :
               /\ nodes[n].depth = 1
               /\ Len(PathsTo(nodes, n, f.actually_used)) = 3
\* ------------------------------------------------------------------ C20
\* The descendants of n that are in used_undeclared.
UsedBelow(ns, n, used_undeclared) == {d \in Below(ns, n) : IsUsed(ns, d, used_undeclared)}

\* (position of an unused_declared entry, direct node it resolves to) for
\* the direct nodes with a used descendant.
ResolvedDirect ==
  {<<i, n>> \in (DOMAIN call.unused_declared) \X (DOMAIN nodes) :
     /\ \E k \in DOMAIN find_dependency(all_dependencies, call.unused_declared[i]) :
          find_dependency(all_dependencies, call.unused_declared[i])[k] = n
     /\ nodes[n].depth = 1
     /\ UsedBelow(nodes, n, call.used_undeclared) # {}}

\* The step-1 findings of the result.
StepOneFindings == SelectSeq(call.result, LAMBDA f : Rank(f) = 1)

\* C20 as stated: step 1 emits exactly one finding per resolved direct node
\* with used descendants, holding the coordinates of all of them.
C20_OneStepOneFindingPerNode ==
  Called("analyze") =>
    /\ Len(StepOneFindings) = Cardinality(ResolvedDirect)
    /\ \A p \in ResolvedDirect :
         \E k \in DOMAIN StepOneFindings :
           /\ StepOneFindings[k].declared_dependency = simple_coordinate(nodes[p[2]])
           /\ Range(StepOneFindings[k].actually_used)
                = {simple_coordinate(nodes[d]) :
                     d \in UsedBelow(nodes, p[2], call.used_undeclared)}

\* C20, amended: step 1 emits, per resolved direct node, one finding for
\* each full coordinate found among its used descendants, with that
\* descendant's simple coordinate as the only element of actually_used;
\* step 2 adds one aggregate finding per resolved direct node.
C20_OneStepOneFindingPerMatch ==
  Called("analyze") =>
    /\ \A k \in DOMAIN StepOneFindings : Len(StepOneFindings[k].actually_used) = 1
    /\ \A declared \in {simple_coordinate(nodes[n]) : n \in DOMAIN nodes},
          used \in {simple_coordinate(nodes[n]) : n \in DOMAIN nodes} :
         Cardinality({k \in DOMAIN StepOneFindings :
                        /\ StepOneFindings[k].declared_dependency = declared
                        /\ StepOneFindings[k].actually_used = <<used>>})
           = Cardinality({<<p, c>> \in ResolvedDirect \X {coordinate(nodes[d]) : d \in DOMAIN nodes} :
                            /\ simple_coordinate(nodes[p[2]]) = declared
                            /\ \E d \in UsedBelow(nodes, p[2], call.used_undeclared) :
                                 /\ coordinate(nodes[d]) = c
                                 /\ simple_coordinate(nodes[d]) = used})
    /\ Len(SelectSeq(call.result, LAMBDA f : Rank(f) = 2)) = Cardinality(ResolvedDirect)

\* One direct node with used descendants of two full coordinates: two
\* step-1 findings and one aggregate finding.
C20_Witness ==
  /\ Called("analyze")
  /\ Cardinality(ResolvedDirect) = 1
  /\ Len(StepOneFindings) = 2
  /\ Len(SelectSeq(call.result, LAMBDA f : Rank(f) = 2)) = 1
\* ------------------------------------------------------------------ C21
\* C21: severity is "high" exactly when actually_used is non-empty and
\* "medium" otherwise, and every per-match and aggregate finding analyze
\* returns has a non-empty actually_used, hence severity "high".
C21_SeverityHigh ==
  /\ Called("severity") =>
       /\ call.result \in {"high", "medium"}
       /\ call.result = "high" <=> call.case.actually_used # <<>>
  /\ Called("analyze") =>
       \A i \in DOMAIN call.result :
         /\ severity(call.result[i]) = "high" <=> call.result[i].actually_used # <<>>
         /\ Rank(call.result[i]) \in {1, 2} =>
              /\ call.result[i].actually_used # <<>>
              /\ severity(call.result[i]) = "high"

\* analyze returned a per-match finding, an aggregate finding and a
\* version-conflict item.
C21_Witness ==
  /\ Called("analyze")
  /\ \A r \in {1, 2, 3} : \E i \in DOMAIN call.result : Rank(call.result[i]) = r

\* severity "medium" read on a case that has a path and no actually_used.
C21_WitnessMedium ==
  /\ Called("severity")
  /\ call.result = "medium"
  /\ call.case.dependency_path # <<>>
\* ------------------------------------------------------------------ C22
\* C22: once the tree is parsed, no operation changes the nodes (the node
\* set, children order, depth, parent), and the index changes only where
\* build_coordinate_index runs: in parse() and when it is called.
C22_ReadOnlyAfterParse ==
  [][ /\ pc # "parsing" => nodes' = nodes
      /\ all_dependencies' # all_dependencies =>
           \/ pc = "parsing" /\ pc' = "ready"
           \/ call'.op = "build_coordinate_index" ]_vars

\* A lookup of a coordinate that is no key of the index returned, with the
\* index still the one build_coordinate_index made.
C22_Witness ==
  /\ Called("find_dependency")
  /\ call.result = <<>>
  /\ call.coordinate \notin DOMAIN all_dependencies
  /\ all_dependencies = build_coordinate_index(nodes, EmptyIndex)
  /\ Len(nodes) = MaxNodes
\* ------------------------------------------------------------------ C23
\* What call k returns when it runs alone.
Alone(run) ==
  analyze(run.nodes, run.all_dependencies, run.unused_declared,
          run.used_undeclared, run.hash_order, run.group_order)

\* C23: under every interleaving of the calls' steps, each call that is
\* done has the result it has when run alone, and a call that is not done
\* holds a prefix of it.
C23_InterleavingsAgree ==
  call.op = "analyze_runs" =>
    \A k \in DOMAIN call.runs :
      LET run == call.runs[k]
      IN /\ run.pc = "done" => run.redundancy_cases = Alone(run)
         /\ Len(run.redundancy_cases) <= Len(Alone(run))
         /\ run.redundancy_cases = SubSeq(Alone(run), 1, Len(run.redundancy_cases))

\* Two calls both part-way: the first in its second loop, the other before
\* its conflict loop, each holding findings of its own.
C23_Witness ==
  /\ call.op = "analyze_runs"
  /\ Len(call.runs) = 2
  /\ call.runs[1].pc = "second" /\ call.runs[1].redundancy_cases # <<>>
  /\ call.runs[2].pc = "conflicts" /\ call.runs[2].redundancy_cases # <<>>
  /\ call.runs[1].redundancy_cases # call.runs[2].redundancy_cases
\* ------------------------------------------------------------------ C25
\* Some call of analyze() is still in one of its loops.
Running == call.op = "analyze_runs" /\ \E k \in DOMAIN call.runs : call.runs[k].pc # "done"

\* All calls have left their loops, each with a result list.
Finished ==
  /\ call.op = "analyze_runs"
  /\ \A k \in DOMAIN call.runs :
       call.runs[k].pc = "done" /\ call.runs[k].redundancy_cases = Alone(call.runs[k])

\* C25: every call of analyze() on a parsed tree and a finite report leaves
\* its loops after finitely many steps and returns a result list.
C25_AnalyzeTerminates == Running ~> Finished

\* A call that went through both loops over two entries has finished.
C25_Witness ==
  /\ Finished
  /\ Len(call.runs) = 1
  /\ Len(call.runs[1].unused_declared) = 2
  /\ Len(call.runs[1].redundancy_cases) >= 3
  /\ Len(nodes) = MaxRunNodes
\* ------------------------------------------------------------------ C24
\* The nodes that the children lists lead to from node n.
RECURSIVE ReachableFrom(_, _)
ReachableFrom(ns, n) ==
  {n} \cup UNION {ReachableFrom(ns, ns[n].children[i]) : i \in DOMAIN ns[n].children}

\* The position of x in a list without repeats that holds it.
PosIn(xs, x) == CHOOSE i \in DOMAIN xs : xs[i] = x

\* xs lists the nodes of the tree once each, a node directly followed by the
\* subtrees of its children in the order of its children list.
IsPreOrder(ns, xs) ==
  /\ NoRepeats(xs)
  /\ Range(xs) = ReachableFrom(ns, 1)
  /\ xs[1] = 1
  /\ \A n \in ReachableFrom(ns, 1) :
       /\ {PosIn(xs, d) : d \in ReachableFrom(ns, n)} =
            PosIn(xs, n) .. (PosIn(xs, n) + Cardinality(ReachableFrom(ns, n)) - 1)
       /\ \A i, j \in DOMAIN ns[n].children :
            i < j => PosIn(xs, ns[n].children[i]) < PosIn(xs, ns[n].children[j])

\* idx holds exactly the nodes of the tree, each once and under its simple
\* coordinate, every list in the order of the pre-order xs.
IndexOfTree(ns, idx, xs) ==
  /\ DOMAIN idx = {simple_coordinate(ns[n]) : n \in ReachableFrom(ns, 1)}
  /\ \A k \in DOMAIN idx :
       /\ NoRepeats(idx[k])
       /\ Range(idx[k]) = {n \in ReachableFrom(ns, 1) : simple_coordinate(ns[n]) = k}
       /\ \A i, j \in DOMAIN idx[k] :
            i < j => PosIn(xs, idx[k][i]) < PosIn(xs, idx[k][j])

\* C24: whatever changes and rebuilds came before, right after
\* build_coordinate_index the index holds every node reachable from the root
\* exactly once under its simple coordinate in pre-order and no node that has
\* left the tree, and flatten lists every reachable node exactly once.
C24_IndexAfterRebuild ==
  /\ pc # "parsing" => IsPreOrder(nodes, flatten(nodes))
  /\ Called("build_coordinate_index") =>
       IndexOfTree(nodes, all_dependencies, flatten(nodes))
  /\ Called("flatten") => IsPreOrder(nodes, call.result)

\* A rebuild on a tree that lost a node the prior index held and gained a
\* node the prior index lacked.
C24_Witness ==
  /\ Called("build_coordinate_index")
  /\ \E k \in DOMAIN call.prior : \E i \in DOMAIN call.prior[k] :
       /\ call.prior[k][i] \notin ReachableFrom(nodes, 1)
       /\ k \notin DOMAIN all_dependencies
  /\ \E n \in ReachableFrom(nodes, 1) :
       /\ n # 1
       /\ \A k \in DOMAIN call.prior : n \notin Range(call.prior[k])
  /\ Cardinality(ReachableFrom(nodes, 1)) >= 3
\* ------------------------------------------------------------------ C26
\* The nodes of the tree whose simple or full coordinate is the target.
Matching(ns, target) ==
  {n \in DOMAIN ns : simple_coordinate(ns[n]) = target \/ coordinate(ns[n]) = target}

\* C26: get_dependency_paths returns exactly one path for every node of the
\* tree that matches the target, from the root down to that node, also for
\* a matching node that lies below another matching node.
C26_AllPaths ==
  Called("get_dependency_paths") =>
    /\ \A n \in Matching(nodes, call.target) :
         Count(call.result, ChainFrom(nodes, 1, n)) = 1
    /\ \A i \in DOMAIN call.result :
         \E n \in Matching(nodes, call.target) : call.result[i] = ChainFrom(nodes, 1, n)

\* ------------------------------------------------------------------ C29
\* C29: in get_statistics, total_dependencies is 1 for the root plus
\* direct_dependencies plus transitive_dependencies, direct_dependencies is
\* the number of depth-1 nodes (the length of root.children) and
\* transitive_dependencies the number of nodes at depth 2 or more.
C29_CountsPartition ==
  Called("get_statistics") =>
    /\ call.result.total_dependencies =
         1 + call.result.direct_dependencies + call.result.transitive_dependencies
    /\ call.result.total_dependencies = call.total_dependencies
    /\ call.result.direct_dependencies = Len(call.direct_dependencies)
    /\ call.result.direct_dependencies = Cardinality({n \in DOMAIN nodes : nodes[n].depth = 1})
    /\ call.result.transitive_dependencies = Cardinality({n \in DOMAIN nodes : nodes[n].depth >= 2})
\* ------------------------------------------------------------------ C27
\* Line i of the report is a coordinate line listed under the header: the
\* nearest header line before it is that header, and no [INFO] line lies
\* between the two.
ListedUnder(content, i, section_header) ==
  /\ coord_match(content[i]) # ""
  /\ \E h \in 1..(i - 1) :
       /\ content[h].body = section_header
       /\ \A k \in (h + 1)..(i - 1) :
            /\ content[k].body \notin {UsedHeader, UnusedHeader}
            /\ content[k].level # "INFO"

\* C27: the report parser keeps the two sections apart: a coordinate gets
\* into used_undeclared only from a line listed under the Used undeclared
\* header and into unused_declared only from a line listed under the Unused
\* declared header, also when the second header follows the first section
\* with no [INFO] line in between.
C27_SectionsApart ==
  (pc = "report" /\ call.op = "_parse_content") =>
    /\ \A c \in Range(call.result.used_undeclared) :
         \E i \in DOMAIN call.content :
           coord_match(call.content[i]) = c /\ ListedUnder(call.content, i, UsedHeader)
    /\ \A c \in Range(call.result.unused_declared) :
         \E i \in DOMAIN call.content :
           coord_match(call.content[i]) = c /\ ListedUnder(call.content, i, UnusedHeader)
\* ------------------------------------------------------------------ C28
\* The depth-1 nodes the entries of unused_declared resolve to, entry by
\* entry and within an entry in the order of the index list.
RECURSIVE DirectOfEntries(_)
DirectOfEntries(us) ==
  IF us = <<>> THEN <<>>
  ELSE SelectSeq(find_dependency(all_dependencies, Head(us)),
                 LAMBDA n : nodes[n].depth = 1) \o DirectOfEntries(Tail(us))

\* The number of full coordinates among the used descendants of n: one
\* per-match finding each.
PerMatchCount(n) ==
  Cardinality({coordinate(nodes[d]) : d \in UsedBelow(nodes, n, call.used_undeclared)})

\* The resolved depth-1 nodes that have per-match findings.
WithPerMatch == SelectSeq(DirectOfEntries(call.unused_declared), LAMBDA n : PerMatchCount(n) > 0)

\* The number of per-match findings of the nodes before position j.
RECURSIVE PerMatchBefore(_)
PerMatchBefore(j) ==
  IF j = 1 THEN 0 ELSE PerMatchBefore(j - 1) + PerMatchCount(WithPerMatch[j - 1])

\* The aggregate findings of the result.
StepTwoFindings == SelectSeq(call.result, LAMBDA f : Rank(f) = 2)

\* C28: a depth-1 node resolved from an unused_declared entry gets an
\* aggregate finding exactly when it gets at least one per-match finding,
\* and the coordinates in the aggregate's actually_used are those of the
\* node's per-match findings for that entry taken together.
C28_AggregateIffPerMatch ==
  Called("analyze") =>
    /\ Len(StepTwoFindings) = Len(WithPerMatch)
    /\ Len(StepOneFindings) = PerMatchBefore(Len(WithPerMatch) + 1)
    /\ \A j \in DOMAIN WithPerMatch :
         LET n == WithPerMatch[j]
             block == SubSeq(StepOneFindings, PerMatchBefore(j) + 1, PerMatchBefore(j + 1))
         IN /\ StepTwoFindings[j].declared_dependency = simple_coordinate(nodes[n])
            /\ \A k \in DOMAIN block :
                 block[k].declared_dependency = simple_coordinate(nodes[n])
            /\ Range(StepTwoFindings[j].actually_used)
                 = UNION {Range(block[k].actually_used) : k \in DOMAIN block}

\* Two entries resolve to a node with two per-match findings, next to a
\* resolved depth-1 node without any.
C28_Witness ==
  /\ Called("analyze")
  /\ Len(WithPerMatch) = 2
  /\ PerMatchCount(WithPerMatch[1]) = 2
  /\ Len(StepTwoFindings) = 2
  /\ Cardinality(Range(StepTwoFindings[1].actually_used)) = 2

\* A resolved depth-1 node with a used child, next to a resolved depth-1
\* node with no used descendant.
C28_WitnessNone ==
  /\ Called("analyze")
  /\ Len(WithPerMatch) = 1
  /\ Len(DirectOfEntries(call.unused_declared)) = 2
  /\ \E d \in UsedBelow(nodes, WithPerMatch[1], call.used_undeclared) :
       nodes[d].depth = 2

\* ------------------------------------------------------------------ C30
\* The distinct versions of the nodes of one group:artifact, ascending.
SortedVersionsOf(artifact) ==
  SelectSeq(VersionsAscending,
            LAMBDA v : \E n \in DOMAIN nodes :
                         /\ nodes[n].group_id \o ":" \o nodes[n].artifact_id = artifact
                         /\ nodes[n].version = v)

\* C30: every version-conflict item of analyze's result has
\* declared_dependency "group:artifact", an empty dependency_path and as
\* actually_used the sorted distinct versions without the smallest one, so
\* a non-empty list that lacks the smallest version, and all these items
\* come after every redundancy finding.
C30_ConflictItems ==
  Called("analyze") =>
    \A i \in DOMAIN call.result :
      Rank(call.result[i]) = 3 =>
        LET f == call.result[i]
        IN /\ \E n \in DOMAIN nodes :
                f.declared_dependency = nodes[n].group_id \o ":" \o nodes[n].artifact_id
           /\ f.dependency_path = <<>>
           /\ f.actually_used = Tail(SortedVersionsOf(f.declared_dependency))
           /\ f.actually_used # <<>>
           /\ Head(SortedVersionsOf(f.declared_dependency)) \notin Range(f.actually_used)
           /\ \A j \in DOMAIN call.result : j > i => Rank(call.result[j]) = 3

\* A result with per-match and aggregate findings followed by the item of
\* a version conflict.
C30_Witness ==
  /\ Called("analyze")
  /\ Len(call.result) >= 3
  /\ Rank(call.result[1]) = 1
  /\ \E i \in DOMAIN call.result : Rank(call.result[i]) = 2
  /\ Rank(Last(call.result)) = 3
  /\ Last(call.result).actually_used = <<"2.0">>
====
